---- MODULE Spec2Model ----
(***************************************************************************)
(* A model of archiver.py, the archiver client utility: one configuration  *)
(* file, the five subcommands (setup, list, create, fetch, update), the    *)
(* remote service, the terminal, the file system and the commands the      *)
(* script starts.                                                          *)
(*                                                                         *)
(* Strings the script computes with are sequences of one-character         *)
(* strings, so that str.replace, str.split, str.lower, sorted() and the    *)
(* os.path functions are computed as Python computes them. JSON null       *)
(* (Python None) is the value None, which is no sequence of characters.    *)
(***************************************************************************)
EXTENDS Integers, Sequences, FiniteSets, TLC

VARIABLES
  disk,        \* the configuration file: [exists, doc]
  config,      \* the in-memory configuration dictionary
  argv,        \* the command line of the invocation: [action, name]
  args,        \* the parsed arguments, which setup rewrites
  pc,          \* the position of the script
  status,      \* how the process ended: "ok", "exit" (sys.exit) or "error" (raised)
  containers,  \* the list the fetch loop iterates over
  idx,         \* the position of the fetch loop in containers
  fetch,       \* the reply of the last fetch_request
  filepath,    \* the path download_request returned
  cmds,        \* the AfterFetchExec segments not yet started
  dirs,        \* the directories that exist
  files,       \* the files written by this script
  log,         \* what the invocation has done to the outside, in order
  runs         \* the number of invocations started

vars == <<disk, config, argv, args, pc, status, containers, idx, fetch,
          filepath, cmds, dirs, files, log, runs>>

\* Invocations of the script one after the other on the same file system.
MaxRuns == 2

----------------------------------------------------------------------------
(* Python strings *)

None == <<"None">>

Ascii == <<" ", "!", "\"", "#", "$", "%", "&", "'", "(", ")", "*", "+", ",", "-", ".", "/", "0", "1", "2", "3", "4", "5", "6", "7", "8", "9", ":", ";", "<", "=", ">", "?", "@", "A", "B", "C", "D", "E", "F", "G", "H", "I", "J", "K", "L", "M", "N", "O", "P", "Q", "R", "S", "T", "U", "V", "W", "X", "Y", "Z", "[", "\\", "]", "^", "_", "backtick", "a", "b", "c", "d", "e", "f", "g", "h", "i", "j", "k", "l", "m", "n", "o", "p", "q", "r", "s", "t", "u", "v", "w", "x", "y", "z", "{", "|", "}", "~">>

\* ord(c) and chr(n) on printable ASCII: Ascii[1] is the space, code point 32
\* (code point 96 is written out: the lexer rejects that character in a string).
Ord(c) == 31 + (CHOOSE i \in 1..Len(Ascii) : Ascii[i] = c)

Chr(n) == Ascii[n - 31]

\* str.lower(), one character
LowerChar(c) == IF Ord(c) >= 65 /\ Ord(c) <= 90 THEN Chr(Ord(c) + 32) ELSE c

Lower(s) == [i \in 1..Len(s) |-> LowerChar(s[i])]

\* s[i:].startswith(p)
StartsWithAt(s, i, p) ==
  /\ i + Len(p) - 1 <= Len(s)
  /\ SubSeq(s, i, i + Len(p) - 1) = p

RECURSIVE ReplaceFrom(_, _, _, _)
ReplaceFrom(s, i, old, new) ==
  IF i > Len(s) THEN <<>>
  ELSE IF StartsWithAt(s, i, old)
       THEN new \o ReplaceFrom(s, i + Len(old), old, new)
       ELSE <<s[i]>> \o ReplaceFrom(s, i + 1, old, new)

\* s.replace(old, new) for a non-empty old: the occurrences are found left to
\* right, do not overlap, and the replacement is not scanned again.
Replace(s, old, new) == ReplaceFrom(s, 1, old, new)

RECURSIVE SplitFrom(_, _, _, _)
SplitFrom(s, i, sep, cur) ==
  IF i > Len(s) THEN <<cur>>
  ELSE IF StartsWithAt(s, i, sep)
       THEN <<cur>> \o SplitFrom(s, i + Len(sep), sep, <<>>)
       ELSE SplitFrom(s, i + 1, sep, Append(cur, s[i]))

\* s.split(sep): k occurrences of sep give k + 1 segments, empty ones kept.
Split(s, sep) == SplitFrom(s, 1, sep, <<>>)

Whitespace == {" "}

RECURSIVE WordsFrom(_, _, _)
WordsFrom(s, i, cur) ==
  LET done == IF cur = <<>> THEN <<>> ELSE <<cur>> IN
  IF i > Len(s) THEN done
  ELSE IF s[i] \in Whitespace
       THEN done \o WordsFrom(s, i + 1, <<>>)
       ELSE WordsFrom(s, i + 1, Append(cur, s[i]))

\* s.split(): the runs of non-blank characters; none for a blank string.
Words(s) == WordsFrom(s, 1, <<>>)

\* a < b on str: by code point, a proper prefix first.
StrLess(a, b) ==
  \E i \in 1..(Len(b)) :
    /\ i <= Len(a) + 1
    /\ \A j \in 1..(i - 1) : a[j] = b[j]
    /\ \/ i = Len(a) + 1
       \/ Ord(a[i]) < Ord(b[i])

RECURSIVE SortedSeq(_)
\* sorted(S) of a set of distinct strings
SortedSeq(S) ==
  IF S = {} THEN <<>>
  ELSE LET m == CHOOSE x \in S : \A y \in S \ {x} : StrLess(x, y)
       IN <<m>> \o SortedSeq(S \ {m})

----------------------------------------------------------------------------
(* os.path *)

Slash == <<"/">>

\* The working directory of the process.
Cwd == <<"/", "h", "o", "m", "e">>

RECURSIVE LastSlash(_, _)
LastSlash(p, i) == IF i = 0 \/ p[i] = "/" THEN i ELSE LastSlash(p, i - 1)

\* os.path.basename(p): what follows the last slash
BaseName(p) == SubSeq(p, LastSlash(p, Len(p)) + 1, Len(p))

\* os.path.join(a, b)
PathJoin(a, b) ==
  IF StartsWithAt(b, 1, Slash) THEN b
  ELSE IF a = <<>> \/ a[Len(a)] = "/" THEN a \o b
  ELSE a \o Slash \o b

RECURSIVE NormComps(_, _, _, _)
\* the component loop of posixpath.normpath
NormComps(comps, i, acc, rooted) ==
  IF i > Len(comps) THEN acc
  ELSE LET c == comps[i] IN
    IF c = <<>> \/ c = <<".">> THEN NormComps(comps, i + 1, acc, rooted)
    ELSE IF c # <<".", ".">>
            \/ (~rooted /\ acc = <<>>)
            \/ (acc # <<>> /\ acc[Len(acc)] = <<".", ".">>)
         THEN NormComps(comps, i + 1, Append(acc, c), rooted)
    ELSE IF acc # <<>> THEN NormComps(comps, i + 1, SubSeq(acc, 1, Len(acc) - 1), rooted)
    ELSE NormComps(comps, i + 1, acc, rooted)

RECURSIVE JoinComps(_, _)
JoinComps(comps, i) ==
  IF i > Len(comps) THEN <<>>
  ELSE comps[i] \o (IF i < Len(comps) THEN Slash ELSE <<>>) \o JoinComps(comps, i + 1)

\* posixpath.normpath(p)
NormPath(p) ==
  IF p = <<>> THEN <<".">>
  ELSE LET slashes == IF ~StartsWithAt(p, 1, Slash) THEN 0
                      ELSE IF StartsWithAt(p, 1, <<"/", "/">>) /\ ~StartsWithAt(p, 1, <<"/", "/", "/">>)
                           THEN 2 ELSE 1
           comps == NormComps(Split(p, Slash), 1, <<>>, slashes > 0)
           path == [i \in 1..slashes |-> "/"] \o JoinComps(comps, 1)
       IN IF path = <<>> THEN <<".">> ELSE path

\* os.path.abspath(p)
AbsPath(p) == NormPath(PathJoin(Cwd, p))

----------------------------------------------------------------------------
(* The configuration and its file *)

DollarName == <<"$", "n", "a", "m", "e">>

DollarPath == <<"$", "p", "a", "t", "h">>

AndAnd == <<"&", "&">>

All == <<"a", "l", "l">>

EmptyDict == [k \in {} |-> None]

default_config == [
  ApiKey |-> None,
  ApiUser |-> None,
  Containers |-> EmptyDict,
  BaseURL |-> <<"h", "t", "t", "p", "s", ":", "/", "/", "p", "a", "s", "s", "t", "h", "e", "p", "o", "p", "c", "o", "r", "n", ".", "m", "e">>,
  FetchURL |-> <<"a", "r", "c", "h", "i", "v", "e", ".", "p", "h", "p", "?", "a", "c", "t", "i", "o", "n", "=", "f", "e", "t", "c", "h">>,
  UpdateURL |-> <<"a", "r", "c", "h", "i", "v", "e", ".", "p", "h", "p", "?", "a", "c", "t", "i", "o", "n", "=", "s", "c", "r", "i", "p", "t">>,
  VersionURL |-> <<"a", "r", "c", "h", "i", "v", "e", ".", "p", "h", "p", "?", "a", "c", "t", "i", "o", "n", "=", "s", "c", "r", "i", "p", "t", "v", "e", "r">>,
  DownloadURL |-> <<"t", "o", "r", "r", "e", "n", "t", "s", ".", "p", "h", "p", "?", "a", "c", "t", "i", "o", "n", "=", "d", "o", "w", "n", "l", "o", "a", "d">>,
  FetchSleep |-> 5,
  Default |-> [
    Size |-> <<"5", "0", "0", "G">>,
    MaxStalled |-> 0,
    AfterFetchExec |-> None,
    WatchDirectory |-> <<"/", "t", "m", "p", "/", "$", "n", "a", "m", "e">>
  ]
]

\* d[k] = v on a dictionary
Put(d, k, v) == [x \in DOMAIN d \cup {k} |-> IF x = k THEN v ELSE d[x]]

\* A JSON object in the file: its members, name and value, in no order.
Members(d) == {<<k, d[k]>> : k \in DOMAIN d}

\* The dictionary json.load makes of a JSON object.
Object(m) == [k \in {p[1] : p \in m} |-> (CHOOSE p \in m : p[1] = k)[2]]

\* json.dump(config, ...): the document of a configuration. Containers is an
\* object of objects, Default an object, every other value a string, a
\* number or null.
JsonDump(c) ==
  Members([k \in DOMAIN c |->
    IF k = "Containers" THEN Members([n \in DOMAIN c[k] |-> Members(c[k][n])])
    ELSE IF k = "Default" THEN Members(c[k])
    ELSE c[k]])

\* json.load(file)
JsonLoad(doc) ==
  LET top == Object(doc) IN
  [k \in DOMAIN top |->
    IF k = "Containers"
    THEN LET cs == Object(top[k]) IN [n \in DOMAIN cs |-> Object(cs[n])]
    ELSE IF k = "Default" THEN Object(top[k])
    ELSE top[k]]

\* save_config(path, config): the file's new content
save_config(c) == [exists |-> TRUE, doc |-> JsonDump(c)]

\* A merge in which the compiled-in Default wins over the container's keys.
MergeContainerDefaultsWin(name, container) ==
  LET merged == [k \in DOMAIN container \cup DOMAIN default_config.Default |->
                   IF k \in DOMAIN default_config.Default THEN default_config.Default[k]
                   ELSE container[k]]
  IN [merged EXCEPT !["WatchDirectory"] = Replace(@, DollarName, name)]

\* The loop of load_config over one container: the keys of the compiled-in
\* Default it lacks, then $name in its WatchDirectory.
MergeContainer(name, container) ==
  LET merged == [k \in DOMAIN container \cup DOMAIN default_config.Default |->
                   IF k \in DOMAIN container THEN container[k]
                   ELSE default_config.Default[k]]
  IN [merged EXCEPT !["WatchDirectory"] = Replace(@, DollarName, name)]

\* load_config(path) of a file that exists
load_config(doc) ==
  LET parsed == JsonLoad(doc)
      merged == [k \in DOMAIN parsed \cup DOMAIN default_config |->
                   IF k \in DOMAIN parsed THEN parsed[k] ELSE default_config[k]]
  IN [merged EXCEPT !["Containers"] =
        [n \in DOMAIN @ |-> MergeContainer(n, @[n])]]

----------------------------------------------------------------------------
(* The world around the script *)

NoFile == [exists |-> FALSE, doc |-> {}]

NoArgs == [action |-> "", name |-> None]

\* One thing done to the outside: a request sent, a question asked, its
\* answer typed, a directory made, a file written, a command run (n its exit
\* status), a sleep (n its seconds), the configuration file written.
Event(op, name, arg, n) == [op |-> op, name |-> name, arg |-> arg, n |-> n]

NameB == <<"B">>

NameC == <<"C">>

NameLowerA == <<"a">>

NameD == <<"D">>

NameX == <<"x", "$", "n", "a", "m", "e">>

NameMe == <<"m", "e">>

\* A configuration with three containers: one as create leaves it, one that
\* has fetched before, and an older record without the newer keys.
ConfigThree ==
  [default_config EXCEPT !.Containers =
    (NameB :> default_config.Default) @@
    (NameC :> [Size |-> <<"1", "T">>, MaxStalled |-> 2,
               AfterFetchExec |-> <<"e", "c", "h", "o", " ", "$", "n", "a", "m", "e", " ", "&", "&", " ", "e", "c", "h", "o", " ", "$", "p", "a", "t", "h">>,
               WatchDirectory |-> <<"/", "t", "m", "p", "/", "C">>,
               ContainerID |-> 7]) @@
    (NameLowerA :> [Size |-> <<"5", "0", "0", "G">>, AfterFetchExec |-> <<>>])]

\* A configuration of an older version of the script, edited by hand: no
\* FetchSleep, a container whose name holds $name, and one whose relative
\* WatchDirectory and name join to $name.
ConfigOld ==
  [k \in DOMAIN default_config \ {"FetchSleep", "Containers"} |-> default_config[k]] @@
  [Containers |->
    (NameX :> [Size |-> <<"5", "0", "0", "G">>, MaxStalled |-> 0,
               AfterFetchExec |-> <<"e", "c", "h", "o", " ", "$", "p", "a", "t", "h">>,
               WatchDirectory |-> <<"/", "t", "m", "p", "/", "$", "n", "a", "m", "e">>]) @@
    (NameMe :> [Size |-> <<"5", "0", "0", "G">>, MaxStalled |-> 0,
                AfterFetchExec |-> <<"e", "c", "h", "o", " ", "$", "p", "a", "t", "h", " ", "&", "&">>,
                WatchDirectory |-> <<"$", "n", "a", "$", "n", "a", "m", "e">>])]

InitialDisks == {NoFile, save_config(ConfigThree), save_config(ConfigOld)}

RootDirs == {<<"/">>, <<"/", "t", "m", "p">>, <<"/", "h", "o", "m", "e">>}

InitialDirs == {RootDirs,
                RootDirs \cup {<<"/", "t", "m", "p", "/", "B">>, <<"/", "t", "m", "p", "/", "C">>}}

\* What the user types as the name argument of create and of fetch.
CreateNames == {NameB, NameD, NameX}

FetchNames == {All, <<"A", "l", "L">>, NameB, NameC, NameD, NameX}

CommandLines ==
  {[action |-> a, name |-> None] : a \in {"setup", "list", "update"}}
    \cup {[action |-> "create", name |-> n] : n \in CreateNames}
    \cup {[action |-> "fetch", name |-> n] : n \in FetchNames}

\* What the user types at the prompts of setup.
UserInputs == {[i \in 1..16 |-> "u"], <<"u", "-">>}

KeyInputs == {[i \in 1..32 |-> "k"], <<"k">>}

NameInputs == {NameB, NameX}

\* The replies of the remote service to archive.php?action=fetch.
ContainerIDs == {7, 8}

FetchReplies ==
  {[Status |-> "Ok", ContainerID |-> i, ScriptVersion |-> 10, TorrentID |-> 1, ArchiveID |-> 1] : i \in ContainerIDs}
    \cup {[Status |-> "Error", ContainerID |-> i, ScriptVersion |-> 10] : i \in ContainerIDs}
    \cup {[Status |-> "Ok", ScriptVersion |-> 10], [Status |-> "Busy", ContainerID |-> 7, ScriptVersion |-> 10]}

\* The file names the service gives in Content-Disposition; None for a
\* header without one.
FileNames == {<<"a", "b", "c", ".", "t", "o", "r", "r", "e", "n", "t">>, None}

\* What the user types at a (y/N) question.
Answers == {<<"Y", "e", "s">>, <<"n">>}

\* An accept_or_die that goes on whatever the answer.
accept_always(answer) == TRUE

\* accept_or_die(question) goes on: the answer, in lower case, is y or yes
accept_or_die(answer) == Lower(answer) \in {<<"y">>, <<"y", "e", "s">>}

\* The log after a question about `subject` and its answer
Asked(l, name, subject, answer) ==
  l \o <<Event("ask", name, subject, 0), Event("answer", name, answer, 0)>>

\* The exit statuses of a command.
ExitCodes == {0, 1}

----------------------------------------------------------------------------
(* The script *)

Init ==
  /\ disk \in InitialDisks
  /\ dirs \in InitialDirs
  /\ files = {}
  /\ config = EmptyDict
  /\ argv = NoArgs
  /\ args = NoArgs
  /\ pc = "shell"
  /\ status = "none"
  /\ containers = <<>>
  /\ idx = 0
  /\ fetch = EmptyDict
  /\ filepath = <<>>
  /\ cmds = <<>>
  /\ log = <<>>
  /\ runs = 0

\* A fetch loop that catches what a container's fetch or download raises and
\* goes on to the next container.
EndsCaught(how) ==
  IF pc \in {"fetch_request", "download_request"} /\ how = "error"
  THEN pc' = "sleep" /\ status' = status
  ELSE pc' = "shell" /\ status' = how

\* The process ends: "ok" after the last line, "exit" by sys.exit(), "error"
\* by an exception nothing catches.
Ends(how) == pc' = "shell" /\ status' = how

\* A new process: the argument parser, and the jump to setup or to load_config.
Invoke(cl) ==
  /\ pc = "shell"
  /\ runs < MaxRuns
  /\ runs' = runs + 1
  /\ argv' = cl
  /\ args' = cl
  /\ pc' = IF cl.action = "setup" THEN "setup" ELSE "load"
  /\ status' = "running"
  /\ config' = EmptyDict
  /\ containers' = <<>>
  /\ idx' = 0
  /\ fetch' = EmptyDict
  /\ filepath' = <<>>
  /\ cmds' = <<>>
  /\ log' = <<>>
  /\ UNCHANGED <<disk, dirs, files>>

\* re.match(r'^[\w\d]{n}$', s)
IsToken(s, n) ==
  /\ Len(s) = n
  /\ \A i \in 1..Len(s) :
       LET o == Ord(s[i]) IN
         \/ o >= 48 /\ o <= 57
         \/ o >= 65 /\ o <= 90
         \/ o >= 97 /\ o <= 122
         \/ o = 95

\* The setup branch: the questions, the first save_config, and the change of
\* the action to create.
Setup ==
  /\ pc = "setup"
  /\ \E overwrite \in Answers, user \in UserInputs, key \in KeyInputs,
        create \in Answers, name \in NameInputs :
       LET asked == IF disk.exists
                    THEN Asked(<<>>, None, <<"O", "v", "e", "r", "w", "r", "i", "t", "e">>, overwrite)
                    ELSE <<>>
           fresh == [default_config EXCEPT !.ApiUser = user, !.ApiKey = key]
           saved == Append(asked, Event("save", None, <<>>, 0))
           again == Asked(saved, None, <<"C", "r", "e", "a", "t", "e">>, create)
       IN
       IF disk.exists /\ ~accept_or_die(overwrite)
       THEN /\ log' = log \o asked
            /\ Ends("exit")
            /\ UNCHANGED <<disk, config, args>>
       ELSE IF ~IsToken(user, 16) \/ ~IsToken(key, 32)
       THEN /\ log' = log \o asked
            /\ config' = default_config
            /\ Ends("exit")
            /\ UNCHANGED <<disk, args>>
       ELSE /\ disk' = save_config(fresh)
            /\ config' = fresh
            /\ log' = log \o again
            /\ IF accept_or_die(create)
               THEN /\ args' = [action |-> "create", name |-> name]
                    /\ pc' = "load"
                    /\ status' = status
               ELSE /\ Ends("exit")
                    /\ args' = args
  /\ UNCHANGED <<argv, containers, idx, fetch, filepath, cmds, dirs, files, runs>>

\* config = load_config(args.config), and the branch of the action
Load ==
  /\ pc = "load"
  /\ IF ~disk.exists
     THEN /\ Ends("error")
          /\ config' = config
     ELSE /\ config' = load_config(disk.doc)
          /\ pc' = args.action
          /\ status' = status
  /\ UNCHANGED <<disk, argv, args, containers, idx, fetch, filepath, cmds, dirs, files, log, runs>>

\* A list that ends without writing the configuration back.
ListOnly ==
  /\ pc = "list"
  /\ pc' = "shell"
  /\ status' = "ok"
  /\ UNCHANGED <<disk, config, argv, args, containers, idx, fetch, filepath, cmds, dirs, files, log, runs>>

\* The list branch prints the containers.
List ==
  /\ pc = "list"
  /\ pc' = "save"
  /\ UNCHANGED <<disk, config, argv, args, status, containers, idx, fetch, filepath, cmds, dirs, files, log, runs>>

\* A create without the test for a container of that name.
CreateOverwrites ==
  /\ pc = "create"
  /\ config' = [config EXCEPT !.Containers = Put(@, args.name, config.Default)]
  /\ pc' = "save"
  /\ UNCHANGED <<disk, argv, args, status, containers, idx, fetch, filepath, cmds, dirs, files, log, runs>>

\* The create branch
Create ==
  /\ pc = "create"
  /\ IF args.name \in DOMAIN config.Containers
     THEN /\ Ends("exit")
          /\ config' = config
     ELSE /\ config' = [config EXCEPT !.Containers = Put(@, args.name, config.Default)]
          /\ pc' = "save"
          /\ status' = status
  /\ UNCHANGED <<disk, argv, args, containers, idx, fetch, filepath, cmds, dirs, files, log, runs>>

\* save_config(args.config, config), the last line of the script
Save ==
  /\ pc = "save"
  /\ disk' = save_config(config)
  /\ log' = Append(log, Event("save", None, <<>>, 0))
  /\ Ends("ok")
  /\ UNCHANGED <<config, argv, args, containers, idx, fetch, filepath, cmds, dirs, files, runs>>

\* The fetch branch before its loop: the containers to fetch for
FetchStart ==
  /\ pc = "fetch"
  /\ containers' = IF Lower(args.name) = All
                   THEN SortedSeq(DOMAIN config.Containers)
                   ELSE <<args.name>>
  /\ idx' = 1
  /\ pc' = IF containers' = <<>> THEN "save" ELSE "fetch_request"
  /\ UNCHANGED <<disk, config, argv, args, status, fetch, filepath, cmds, dirs, files, log, runs>>

\* The test of api_request on a reply
Expected(reply, keys) ==
  /\ "Status" \in DOMAIN reply
  /\ reply.Status \in {"Ok", "Error"}
  /\ keys \subseteq DOMAIN reply

\* A fetch_request that does not look the name up before it asks the service.
RegisteredAnyway(name) == TRUE

\* name in config['Containers']
Registered(name) == name \in DOMAIN config.Containers

\* fetch = fetch_request(config, container)
FetchRequest ==
  /\ pc = "fetch_request"
  /\ LET name == containers[idx]
         sent == Append(log, Event("http_fetch", name, <<>>, 0))
     IN
     IF ~Registered(name)
     THEN /\ Ends("error")
          /\ UNCHANGED <<config, fetch, log>>
     ELSE \/ \* requests.get or raise_for_status raises
             /\ log' = sent
             /\ Ends("error")
             /\ UNCHANGED <<config, fetch>>
          \/ \E reply \in FetchReplies :
               /\ log' = sent
               /\ IF ~Expected(reply, {"ContainerID", "ScriptVersion"})
                  THEN /\ Ends("error")
                       /\ UNCHANGED <<config, fetch>>
                  ELSE /\ config' = [config EXCEPT !.Containers[name] =
                                       Put(@, "ContainerID", reply.ContainerID)]
                       /\ fetch' = reply
                       /\ pc' = "download_request"
                       /\ status' = status
  /\ UNCHANGED <<disk, argv, args, containers, idx, filepath, cmds, dirs, files, runs>>

RECURSIVE Ancestors(_, _)
\* The directories os.makedirs(p) makes sure of: p and everything above it
Ancestors(p, i) ==
  IF i > Len(p) THEN {p}
  ELSE (IF p[i] = "/" /\ i > 1 THEN {SubSeq(p, 1, i - 1)} ELSE {}) \cup Ancestors(p, i + 1)

\* filepath = download_request(config, container, fetch)
DownloadRequest ==
  /\ pc = "download_request"
  /\ LET name == containers[idx]
         sent == Append(log, Event("http_download", name, <<>>, 0))
     IN
     IF ~Registered(name) \/ ~({"TorrentID", "ArchiveID"} \subseteq DOMAIN fetch)
     THEN /\ Ends("error")
          /\ UNCHANGED <<filepath, dirs, files, log>>
     ELSE \/ \* requests.get or raise_for_status raises
             /\ log' = sent
             /\ Ends("error")
             /\ UNCHANGED <<filepath, dirs, files>>
          \/ \E filename \in FileNames, answer \in Answers, written \in BOOLEAN :
               LET abs_path == AbsPath(config.Containers[name].WatchDirectory)
                   target == PathJoin(abs_path, BaseName(filename))
                   asked == Asked(sent, name, abs_path, answer)
                   made == Append(asked, Event("makedirs", name, abs_path, 0))
                   ready == IF abs_path \in dirs THEN sent ELSE made
               IN
               IF filename = None
               THEN /\ log' = sent
                    /\ Ends("error")
                    /\ UNCHANGED <<filepath, dirs, files>>
               ELSE IF abs_path \notin dirs /\ ~accept_or_die(answer)
               THEN /\ log' = asked
                    /\ Ends("exit")
                    /\ UNCHANGED <<filepath, dirs, files>>
               ELSE IF abs_path \notin dirs /\ abs_path \in files
               THEN \* os.makedirs raises: a file has that name
                    /\ log' = asked
                    /\ Ends("error")
                    /\ UNCHANGED <<filepath, dirs, files>>
               ELSE IF ~written \/ target \in dirs
               THEN \* open(abs_path, 'wb') raises
                    /\ log' = ready
                    /\ dirs' = dirs \cup Ancestors(abs_path, 1)
                    /\ Ends("error")
                    /\ UNCHANGED <<filepath, files>>
               ELSE /\ log' = Append(ready, Event("write", name, target, 0))
                    /\ dirs' = dirs \cup Ancestors(abs_path, 1)
                    /\ files' = files \cup {target}
                    /\ filepath' = target
                    /\ pc' = "after"
                    /\ status' = status
  /\ UNCHANGED <<disk, config, argv, args, containers, idx, fetch, cmds, runs>>

\* The AfterFetchExec of a download: the command line after both
\* substitutions, cut at every &&
AfterCommands(after, path) ==
  Split(Replace(Replace(after, DollarPath, path), DollarName, BaseName(path)), AndAnd)

\* after = config['Containers'][container]['AfterFetchExec'], and the
\* substitutions if there is one
AfterFetch ==
  /\ pc = "after"
  /\ LET after == config.Containers[containers[idx]].AfterFetchExec IN
     IF after # None /\ after # <<>>
     THEN /\ cmds' = AfterCommands(after, filepath)
          /\ pc' = "popen"
     ELSE /\ cmds' = <<>>
          /\ pc' = "sleep"
  /\ UNCHANGED <<disk, config, argv, args, status, containers, idx, fetch, filepath, dirs, files, log, runs>>

\* One turn of the loop over after.split('&&'):
\* subprocess.Popen(cmd.split()).communicate()
Popen ==
  /\ pc = "popen"
  /\ LET cmd == Head(cmds) IN
     IF Words(cmd) = <<>>
     THEN \* Popen([]) raises
          /\ Ends("error")
          /\ UNCHANGED <<cmds, log>>
     ELSE \/ \* the program cannot be started: Popen raises
             /\ Ends("error")
             /\ UNCHANGED <<cmds, log>>
          \/ \E rc \in ExitCodes :
               /\ log' = Append(log, Event("exec", containers[idx], cmd, rc))
               /\ cmds' = Tail(cmds)
               /\ pc' = IF Tail(cmds) = <<>> THEN "sleep" ELSE "popen"
               /\ status' = status
  /\ UNCHANGED <<disk, config, argv, args, containers, idx, fetch, filepath, dirs, files, runs>>

\* A fetch loop that sleeps after every container.
NotLastAlways == TRUE

\* containers[-1] != container
NotLast == containers[Len(containers)] # containers[idx]

\* The end of one turn of the fetch loop: the sleep unless this was the last
\* container, then the next container or the end of the loop
Sleep ==
  /\ pc = "sleep"
  /\ log' = IF NotLast
            THEN Append(log, Event("sleep", containers[idx], <<>>, config.FetchSleep))
            ELSE log
  /\ IF idx < Len(containers)
     THEN idx' = idx + 1 /\ pc' = "fetch_request"
     ELSE idx' = idx /\ pc' = "save"
  /\ UNCHANGED <<disk, config, argv, args, status, containers, fetch, filepath, cmds, dirs, files, runs>>

\* The replies of the remote service to archive.php?action=scriptver
VersionReplies ==
  {[Status |-> "Ok", ScriptVersion |-> v] : v \in {10, 11}} \cup {[Status |-> "Ok"]}

\* The version of this script, in hundredths
Version == 10

\* The update branch with update_request(config)
Update ==
  /\ pc = "update"
  /\ LET asked == Append(log, Event("http_version", None, <<>>, 0)) IN
     \/ \* requests.get or raise_for_status raises
        /\ log' = asked
        /\ Ends("error")
     \/ \E reply \in VersionReplies, answer \in Answers, fetched \in BOOLEAN :
          LET confirmed == Asked(asked, None, <<"U", "p", "d", "a", "t", "e">>, answer)
              got == Append(confirmed, Event("http_update", None, <<>>, 0))
          IN
          IF ~Expected(reply, {"ScriptVersion"})
          THEN log' = asked /\ Ends("error")
          ELSE IF reply.ScriptVersion <= Version
          THEN log' = asked /\ pc' = "save" /\ status' = status
          ELSE IF ~accept_or_die(answer)
          THEN log' = confirmed /\ Ends("exit")
          ELSE IF ~fetched
          THEN log' = got /\ Ends("error")
          ELSE log' = Append(got, Event("write", None, <<"a", "r", "c", "h", "i", "v", "e", "r", ".", "p", "y">>, 0))
               /\ pc' = "save" /\ status' = status
  /\ UNCHANGED <<disk, config, argv, args, containers, idx, fetch, filepath, cmds, dirs, files, runs>>

Next ==
  \/ \E cl \in CommandLines : Invoke(cl)
  \/ Setup
  \/ Load
  \/ List
  \/ Create
  \/ FetchStart
  \/ FetchRequest
  \/ DownloadRequest
  \/ AfterFetch
  \/ Popen
  \/ Sleep
  \/ Update
  \/ Save

Spec == Init /\ [][Next]_vars

----------------------------------------------------------------------------
(* load_config, save_config, load_config on one file *)

SampleTop ==
  [default_config EXCEPT !.ApiUser = [i \in 1..16 |-> "u"], !.FetchSleep = 9,
                         !.Default = [@ EXCEPT !.Size = <<"1", "T">>]]

SampleContainer(wd) ==
  [Size |-> <<"2", "T">>, MaxStalled |-> 2,
   AfterFetchExec |-> <<"e", "c", "h", "o", " ", "$", "p", "a", "t", "h">>,
   WatchDirectory |-> wd, ContainerID |-> 7]

Restrict(d, keys) == [k \in DOMAIN d \cap keys |-> d[k]]

SampleNames == {NameB, NameX, NameMe}

SampleDirectories ==
  {<<"/", "t", "m", "p", "/", "$", "n", "a", "m", "e">>,
   <<"$", "n", "a", "$", "n", "a", "m", "e">>,
   <<"/", "w">>}

SampleTopKeys ==
  {DOMAIN default_config,
   DOMAIN default_config \ {"FetchSleep", "Default", "ApiKey"},
   {"Containers"},
   {}}

\* Configuration files of this and of older versions of the script: any of
\* the top-level keys and any of a container's keys may be missing.
SampleFiles ==
  {Restrict([SampleTop EXCEPT !.Containers = (n :> Restrict(SampleContainer(wd), ks))], top) :
     top \in SampleTopKeys, n \in SampleNames, wd \in SampleDirectories,
     ks \in SUBSET DOMAIN SampleContainer(<<>>)}

InitRoundTrip ==
  /\ disk \in {[exists |-> TRUE, doc |-> JsonDump(f)] : f \in SampleFiles}
  /\ dirs = RootDirs
  /\ files = {}
  /\ config = EmptyDict
  /\ argv = NoArgs
  /\ args = NoArgs
  /\ pc = "rt_load"
  /\ status = "none"
  /\ containers = <<>>
  /\ idx = 0
  /\ fetch = EmptyDict
  /\ filepath = <<>>
  /\ cmds = <<>>
  /\ log = <<>>
  /\ runs = 0

RoundTripLoad ==
  /\ pc = "rt_load"
  /\ config' = load_config(disk.doc)
  /\ pc' = "rt_save"
  /\ UNCHANGED <<disk, argv, args, status, containers, idx, fetch, filepath, cmds, dirs, files, log, runs>>

RoundTripSave ==
  /\ pc = "rt_save"
  /\ disk' = save_config(config)
  /\ pc' = "rt_reload"
  /\ UNCHANGED <<config, argv, args, status, containers, idx, fetch, filepath, cmds, dirs, files, log, runs>>

RoundTripReload ==
  /\ pc = "rt_reload"
  /\ config' = load_config(disk.doc)
  /\ pc' = "rt_done"
  /\ UNCHANGED <<disk, argv, args, status, containers, idx, fetch, filepath, cmds, dirs, files, log, runs>>

NextRoundTrip == RoundTripLoad \/ RoundTripSave \/ RoundTripReload

SpecRoundTrip == InitRoundTrip /\ [][NextRoundTrip]_vars

----------------------------------------------------------------------------
(* Claims about the configuration file *)

\* C6: Load, Save, Load yields the configuration of the first Load, whatever
\* the container names and WatchDirectory strings. At rt_done the file is
\* what Save wrote of the first Load's result and config is the second Load's.
C6_RoundTripEqual ==
  pc = "rt_done" => config = JsonLoad(disk.doc)

\* The file as it was parsed before load_config's merge.
Parsed == JsonLoad(disk.doc)

\* Every key of the compiled-in defaults is populated, at both levels.
Populated ==
  /\ DOMAIN config = DOMAIN Parsed \cup DOMAIN default_config
  /\ \A n \in DOMAIN config.Containers :
       DOMAIN config.Containers[n] =
         DOMAIN Parsed.Containers[n] \cup DOMAIN default_config.Default

\* The keys the file lacks have the compiled-in default value; a backfilled
\* WatchDirectory is looked at separately.
Backfilled ==
  /\ \A k \in DOMAIN default_config \ DOMAIN Parsed : config[k] = default_config[k]
  /\ \A n \in DOMAIN config.Containers :
       \A k \in DOMAIN default_config.Default \ (DOMAIN Parsed.Containers[n] \cup {"WatchDirectory"}) :
         config.Containers[n][k] = default_config.Default[k]

\* The keys the file has keep their value, a container's keys other than
\* those in `but`.
Kept(but) ==
  /\ \A k \in DOMAIN Parsed \ {"Containers"} : config[k] = Parsed[k]
  /\ "Containers" \in DOMAIN Parsed => DOMAIN config.Containers = DOMAIN Parsed.Containers
  /\ \A n \in DOMAIN config.Containers :
       \A k \in DOMAIN Parsed.Containers[n] \ but :
         config.Containers[n][k] = Parsed.Containers[n][k]

\* C7 as stated: after Load every missing key is backfilled from the
\* defaults at both levels and no key the file has is altered.
C7_LoadKeepsPresent ==
  pc = "rt_save" => Populated /\ Backfilled /\ Kept({})

\* C7 amended: after Load every missing key is backfilled from the compiled-in
\* defaults at both levels and no key the file has is altered, except that a
\* container's WatchDirectory, from the file or backfilled, has every $name
\* replaced by the container's name.
C7_LoadBackfills ==
  pc = "rt_save" =>
    /\ Populated
    /\ Backfilled
    /\ Kept({"WatchDirectory"})
    /\ \A n \in DOMAIN config.Containers :
         config.Containers[n].WatchDirectory =
           Replace(IF "WatchDirectory" \in DOMAIN Parsed.Containers[n]
                   THEN Parsed.Containers[n].WatchDirectory
                   ELSE default_config.Default.WatchDirectory,
                   DollarName, n)

\* A Load of a file that lacks top-level keys and whose container lacks some
\* keys and has others.
C7_Witness ==
  /\ pc = "rt_save"
  /\ "FetchSleep" \notin DOMAIN Parsed
  /\ \E n \in DOMAIN config.Containers :
       /\ DOMAIN Parsed.Containers[n] = {"Size", "WatchDirectory", "ContainerID"}
       /\ config.Containers[n].WatchDirectory # Parsed.Containers[n].WatchDirectory

----------------------------------------------------------------------------
(* Claims about an invocation *)

\* The events of the log whose operation is one of ops, in order
Only(ops) == SelectSeq(log, LAMBDA e : e.op \in ops)

\* The events of the log about container n whose operation is one of ops
About(n, ops) == SelectSeq(log, LAMBDA e : e.op \in ops /\ e.name = n)

\* The invocation on the command line has ended.
Ended == pc = "shell" /\ runs > 0

FetchesAll == argv.action = "fetch" /\ Lower(argv.name) = All

\* C1: a `fetch all` in which every step succeeds requests the assignment and
\* then the download of each registered container exactly once, in sorted
\* name order, and sleeps FetchSleep after each container but the last; a
\* fetch of one named container never sleeps.
C1_FetchAllOrder ==
  /\ (Ended /\ FetchesAll /\ status = "ok") =>
       LET calls == Only({"http_fetch", "http_download", "sleep"})
           names == DOMAIN config.Containers
           count == Cardinality(names)
       IN /\ Len(calls) = IF count = 0 THEN 0 ELSE 3 * count - 1
          /\ \A i \in 1..count :
               /\ calls[3 * i - 2].op = "http_fetch"
               /\ calls[3 * i - 1].op = "http_download"
               /\ calls[3 * i - 1].name = calls[3 * i - 2].name
               /\ i < count => /\ calls[3 * i].op = "sleep"
                               /\ calls[3 * i].n = config.FetchSleep
          /\ {calls[3 * i - 2].name : i \in 1..count} = names
          /\ \A i, j \in 1..count :
               i < j => StrLess(calls[3 * i - 2].name, calls[3 * j - 2].name)
  /\ (argv.action = "fetch" /\ ~FetchesAll) => Only({"sleep"}) = <<>>

\* A `fetch all` over three containers has ended well.
C1_Witness ==
  /\ Ended /\ FetchesAll /\ status = "ok"
  /\ Cardinality(DOMAIN config.Containers) = 3
  /\ Len(Only({"sleep"})) = 2

\* What the fetch loop does to the outside for a container
FetchOps == {"http_fetch", "http_download", "ask", "answer", "makedirs", "write", "exec", "sleep"}

\* C2: in a `fetch all` a failure of a container's fetch, download or
\* directory confirmation is not caught: the loop is at a container only when
\* every container before it came through, nothing is done for a container
\* after it, the failing one is not tried again, and nothing follows the failure.
C2_FailureAborts ==
  (FetchesAll /\ idx >= 1 /\ idx <= Len(containers)) =>
    /\ \A j \in 1..(idx - 1) :
         /\ Len(About(containers[j], {"http_fetch"})) = 1
         /\ Len(About(containers[j], {"http_download"})) = 1
         /\ Len(About(containers[j], {"write"})) = 1
    /\ \A j \in (idx + 1)..Len(containers) : About(containers[j], FetchOps) = <<>>
    /\ Len(About(containers[idx], {"http_fetch"})) <= 1
    /\ Len(About(containers[idx], {"http_download"})) <= 1
    /\ (Ended /\ status # "ok") =>
         /\ About(containers[idx], {"sleep"}) = <<>>
         /\ Only({"save"}) = <<>>

\* A `fetch all` has failed at its second container of three.
C2_Witness ==
  /\ Ended /\ FetchesAll /\ status = "error"
  /\ Len(containers) = 3 /\ idx = 2
  /\ Len(About(containers[1], {"write"})) = 1
  /\ About(containers[2], {"http_download"}) = <<>>

\* C3 as stated: a ContainerID the configuration holds when a fetch
\* invocation ends, one assigned by a fetch of this invocation included, is in
\* the configuration file.
C3_IdsOnDisk ==
  (Ended /\ argv.action = "fetch" /\ disk.exists) =>
    \A n \in DOMAIN config.Containers :
      "ContainerID" \in DOMAIN config.Containers[n] =>
        LET saved == JsonLoad(disk.doc).Containers IN
          /\ n \in DOMAIN saved
          /\ "ContainerID" \in DOMAIN saved[n]
          /\ saved[n].ContainerID = config.Containers[n].ContainerID

Saves == Len(Only({"save"}))

\* The last thing the invocation did was to write the configuration it holds.
SavedLast ==
  /\ log # <<>>
  /\ log[Len(log)].op = "save"
  /\ disk = save_config(config)

\* C4 as stated: every invocation saves exactly once when it succeeds, as its
\* last step, and not at all when it fails or ends early.
C4_SaveOnce ==
  Ended => IF status = "ok" THEN Saves = 1 /\ SavedLast ELSE Saves = 0

\* setup has asked whether to create a container, that is, it has taken the
\* credentials and written the new file.
AskedToCreate ==
  \E i \in 1..Len(log) : log[i].op = "ask" /\ log[i].arg = <<"C", "r", "e", "a", "t", "e">>

\* C4 amended: an invocation of list, create, fetch or update saves exactly
\* once when it succeeds, as its last step, and not at all when it fails or
\* ends early. setup writes the new file as soon as both credentials are
\* accepted: it has saved once when the offer to create a container is
\* declined, and twice, the second time as its last step, when it succeeds.
C4_SaveAtEnd ==
  Ended =>
    IF argv.action # "setup"
    THEN IF status = "ok" THEN Saves = 1 /\ SavedLast ELSE Saves = 0
    ELSE IF status = "ok" THEN Saves = 2 /\ SavedLast
    ELSE Saves = IF AskedToCreate THEN 1 ELSE 0

\* A setup that created a container has ended.
C4_Witness ==
  /\ Ended /\ argv.action = "setup" /\ status = "ok"
  /\ Saves = 2
  /\ DOMAIN config.Containers # {}

\* C5: create of a name that is registered ends the invocation with the
\* containers in memory and the file as they were; create of a new name adds
\* that one container, a copy of Default, and changes no other, and that is
\* what the invocation saves.
C5_CreateUnique ==
  [][/\ pc = "create" =>
          IF args.name \in DOMAIN config.Containers
          THEN /\ pc' = "shell" /\ status' = "exit"
               /\ config' = config
               /\ disk' = disk
          ELSE /\ pc' = "save"
               /\ DOMAIN config'.Containers = DOMAIN config.Containers \cup {args.name}
               /\ config'.Containers[args.name] = config.Default
               /\ \A n \in DOMAIN config.Containers :
                    config'.Containers[n] = config.Containers[n]
     /\ (pc = "save" /\ args.action = "create") =>
          /\ args.name \in DOMAIN config.Containers
          /\ JsonLoad(disk'.doc) = config]_vars

\* A second create of a name that only an earlier create can have registered
\* has been refused.
C5_Witness ==
  /\ Ended /\ runs = 2
  /\ argv = [action |-> "create", name |-> NameD]
  /\ status = "exit"
  /\ NameD \in DOMAIN config.Containers

\* C8: a fetch for a name that is not registered ends in fetch_request with
\* an error before anything is sent: no request, no ContainerID assigned, no
\* file written, no command run.
C8_UnknownContainer ==
  (/\ argv.action = "fetch" /\ ~FetchesAll
   /\ disk.exists /\ pc # "load"
   /\ argv.name \notin DOMAIN config.Containers) =>
    /\ log = <<>>
    /\ config = load_config(disk.doc)
    /\ pc \in {"fetch", "fetch_request", "shell"}
    /\ pc = "shell" => status = "error"

\* A fetch for an unregistered name has ended.
C8_Witness ==
  /\ Ended /\ argv.action = "fetch" /\ argv.name = NameD
  /\ disk.exists
  /\ NameD \notin DOMAIN config.Containers
  /\ DOMAIN config.Containers # {}
  /\ status = "error"

Yes(answer) == Lower(answer) \in {<<"y">>, <<"y", "e", "s">>}

\* C9: a watch directory is made only right after the question about it was
\* answered yes, and the file is written after that; after the answer no the
\* invocation is over with the directory still missing; the question is
\* asked only about a directory that does not exist.
C9_ConfirmedCreate ==
  /\ [](\A i \in 1..Len(log) :
          /\ log[i].op = "makedirs" =>
               /\ i > 2
               /\ log[i - 1].op = "answer" /\ Yes(log[i - 1].arg)
               /\ log[i - 2].op = "ask" /\ log[i - 2].arg = log[i].arg
               /\ log[i].arg \in dirs
          /\ (log[i].op = "write" /\ log[i].name # None) =>
               /\ i > 1
               /\ log[i - 1].op \in {"makedirs", "http_download"}
               /\ log[i - 1].name = log[i].name
               /\ log[i].arg \in files
               /\ \E d \in dirs : log[i].arg = PathJoin(d, BaseName(log[i].arg))
          /\ (log[i].op = "answer" /\ log[i].name # None /\ ~Yes(log[i].arg)) =>
               /\ i = Len(log)
               /\ Ended /\ status = "exit"
               /\ log[i - 1].arg \notin dirs)
  /\ [][\A i \in (Len(log) + 1)..Len(log') :
          (log'[i].op = "ask" /\ log'[i].name # None) => log'[i].arg \notin dirs]_vars

\* A download has made its watch directory after the answer yes.
C9_Witness ==
  \E i \in 1..Len(log) :
    /\ log[i].op = "makedirs"
    /\ i < Len(log) /\ log[i + 1].op = "write"

RECURSIVE SubstituteFrom(_, _, _)
SubstituteFrom(s, i, path) ==
  IF i > Len(s) THEN <<>>
  ELSE IF StartsWithAt(s, i, DollarPath)
       THEN path \o SubstituteFrom(s, i + Len(DollarPath), path)
  ELSE IF StartsWithAt(s, i, DollarName)
       THEN BaseName(path) \o SubstituteFrom(s, i + Len(DollarName), path)
  ELSE <<s[i]>> \o SubstituteFrom(s, i + 1, path)

\* The template with its $path replaced by the path and its $name by the
\* path's base name.
Substituted(template, path) == SubstituteFrom(template, 1, path)

\* C10 as stated: when the after-fetch step of a container is over, the
\* commands run for it are the segments between the && of its template, with
\* $path replaced by the downloaded file's path and $name by its base name,
\* in order, and none when the template is null or empty; a command runs only
\* for a container whose download was written.
C10_AfterFetchRuns ==
  /\ pc = "sleep" =>
       LET n == containers[idx]
           after == config.Containers[n].AfterFetchExec
           ran == About(n, {"exec"})
       IN IF after = None \/ after = <<>> THEN ran = <<>>
          ELSE LET want == Split(Substituted(after, filepath), AndAnd) IN
               /\ Len(ran) = Len(want)
               /\ \A i \in 1..Len(ran) : ran[i].arg = want[i]
  /\ \A i \in 1..Len(log) :
       log[i].op = "exec" =>
         \E j \in 1..(i - 1) : log[j].op = "write" /\ log[j].name = log[i].name

====
